---- MODULE Spec2Model ----
(***************************************************************************)
(* Governance control plane: the rules engine (backend/rules_engine.py)    *)
(* and the ingest / review handlers with the in-memory review queue        *)
(* (backend/app.py).                                                       *)
(*                                                                         *)
(* Scores and thresholds are floats in the source; here they are integers  *)
(* in hundredths (0.20 is 20), which keeps every comparison of the source  *)
(* exact on the values the model draws.                                    *)
(*                                                                         *)
(* The request handlers are "async def" coroutines without any await, so   *)
(* the single uvicorn event loop runs each of them to completion: one      *)
(* handler is one atomic action, and concurrent requests are served in     *)
(* some serial order.                                                      *)
(***************************************************************************)
EXTENDS Integers, Sequences, FiniteSets, TLC

VARIABLES
    risk_thresholds,    \* RulesEngine.policy_config["risk_thresholds"]
    policy_file,        \* what policy/policy_map.yaml holds (NoFile: absent)
    enforcement_stats,  \* RulesEngine.enforcement_stats (the two counters read back)
    event,              \* the ClaudeEvent handed to apply_policies by a direct caller
    returned,           \* the PolicyActions apply_policies returned for it, in order
    config_at_call,     \* the threshold table the last of these calls read
    update_result,      \* what the last direct update_policy call did
    events,             \* table events of the database: event_id -> row
    review_queue,       \* app.review_queue: event_id -> entry
    policy_history,     \* table policy_history of the database, in insertion order
    decided,            \* per event_id, how many review requests were answered 200
    review_update,      \* what update_policy returned inside the last review request
    response,           \* the answer to the last request
    matches,            \* the (description, weight) list a detect() collected
    confidence,         \* what _calculate_confidence returned for it
    action_args,        \* the arguments of a call of _determine_action
    action_result,      \* what the call returned
    calls,              \* the update_policy calls in flight: caller -> request, position
    loop                \* the coroutine the event loop is running (None: idle)

vars == <<risk_thresholds, policy_file, enforcement_stats, event, returned,
          config_at_call, update_result, events, review_queue, policy_history,
          decided, review_update, response, matches, confidence, action_args,
          action_result, calls, loop>>

unit_vars == <<matches, confidence, action_args, action_result, calls, loop>>
engine_vars == <<risk_thresholds, policy_file, enforcement_stats>>
caller_vars == <<event, returned, config_at_call, update_result>>
app_vars == <<events, review_queue, policy_history, decided, review_update, response>>
tagger_vars == <<matches, confidence>>
action_vars == <<action_args, action_result>>
step_vars == <<calls, loop>>

----
\* Enumerations of backend/models.py

TierEnum == {"general", "enterprise", "research_sandbox"}

ActionEnum == {"allow", "block", "redact", "escalate"}

\* The categories with a tagger, which are also the keys of the default table
Categories == {"cbrn", "self_harm", "jailbreak", "exploitation"}

\* Python's None, where a string is expected
None == "None"

\* asl_level = None
NoLevel == 0

----
\* RulesEngine._use_default_config

DefaultThresholds ==
    [c \in Categories |->
        CASE c = "cbrn"         -> [general |-> 15, enterprise |-> 18, research_sandbox |-> 25]
          [] c = "self_harm"    -> [general |-> 30, enterprise |-> 50, research_sandbox |-> 80]
          [] c = "jailbreak"    -> [general |-> 30, enterprise |-> 45, research_sandbox |-> 60]
          [] c = "exploitation" -> [general |-> 30, enterprise |-> 45, research_sandbox |-> 60]]

\* policy_config["asl_triggers"]: level -> triggers, in order
DefaultAslTriggers ==
    <<[asl |-> 3,
       triggers |-> <<[category |-> "cbrn", confidence |-> 20],
                      [category |-> "autonomous_replication", confidence |-> 50],
                      [category |-> "cyber_offense", confidence |-> 50],
                      [category |-> "deception", confidence |-> 50]>>]>>

----
\* A ClaudeEvent's risk_scores is a dict: a sequence of [category, score] in
\* insertion order, no category twice.

HasScore(risk_scores, category) ==
    \E i \in 1..Len(risk_scores) : risk_scores[i].category = category

ScoreOf(risk_scores, category) ==
    LET i == CHOOSE k \in 1..Len(risk_scores) : risk_scores[k].category = category
    IN  risk_scores[i].score

----
\* Floats: float('nan') is a float like any other to update_policy, and every
\* comparison with it is false.

NaN == 0 - 1000

\* a < b
FloatLess(a, b) == a # NaN /\ b # NaN /\ a < b

\* a > b
FloatGreater(a, b) == a # NaN /\ b # NaN /\ a > b

----
\* RulesEngine.apply_policies

\* line 91: the accumulators before the threshold loop
NoRisks == [triggered_risks |-> <<>>, max_risk_score |-> 0, critical_category |-> None]

\* lines 100-110: one pass of the loop body, for one item of risk_scores
CheckOne(item, tier, thresholds, acc) ==
    IF /\ item.category \in DOMAIN thresholds
       /\ tier \in DOMAIN thresholds[item.category]
       /\ FloatGreater(item.score, thresholds[item.category][tier])
    THEN [triggered_risks |->
              Append(acc.triggered_risks,
                     [category |-> item.category, score |-> item.score,
                      threshold |-> thresholds[item.category][tier]]),
          max_risk_score |->
              IF item.score > acc.max_risk_score THEN item.score ELSE acc.max_risk_score,
          critical_category |->
              IF item.score > acc.max_risk_score THEN item.category
              ELSE acc.critical_category]
    ELSE acc

\* lines 94-110: the loop over event.risk_scores.items()
RECURSIVE CheckThresholds(_, _, _, _)
CheckThresholds(risk_scores, tier, thresholds, acc) ==
    IF risk_scores = <<>> THEN acc
    ELSE CheckThresholds(Tail(risk_scores), tier, thresholds,
                         CheckOne(Head(risk_scores), tier, thresholds, acc))

\* lines 117-121
asl_checks ==
    <<[category |-> "cbrn", asl_threshold |-> 20],
      [category |-> "exploitation", asl_threshold |-> 50],
      [category |-> "jailbreak", asl_threshold |-> 50]>>

\* The check compared with the tier threshold of the table instead of the
\* fixed threshold of the check
AslCheckFires_Table(check, risk_scores) ==
    /\ HasScore(risk_scores, check.category)
    /\ ScoreOf(risk_scores, check.category) >= risk_thresholds[check.category][event.tier]

\* lines 124-125: does the check fire on these scores
AslCheckFires(check, risk_scores) ==
    /\ HasScore(risk_scores, check.category)
    /\ ScoreOf(risk_scores, check.category) >= check.asl_threshold

\* lines 123-131: the loop stops at the first check that fires; 0 when none does
FirstAslCheck(risk_scores) ==
    LET fire == {i \in 1..Len(asl_checks) : AslCheckFires(asl_checks[i], risk_scores)}
    IN  IF fire = {} THEN 0 ELSE CHOOSE i \in fire : \A j \in fire : i <= j

\* lines 135-144: the inner loop, over one level's triggers, breaks at the first hit
TriggerFires(config, risk_scores) ==
    \E k \in 1..Len(config.triggers) :
        /\ HasScore(risk_scores, config.triggers[k].category)
        /\ ScoreOf(risk_scores, config.triggers[k].category) >= config.triggers[k].confidence

\* lines 134-144: the outer loop, over the configured levels; every level with a
\* hit counts one trigger and the last of them sets asl_level
RECURSIVE ConfiguredAsl(_, _, _)
ConfiguredAsl(asl_triggers, risk_scores, acc) ==
    IF asl_triggers = <<>> THEN acc
    ELSE LET config == Head(asl_triggers)
         IN  ConfiguredAsl(Tail(asl_triggers), risk_scores,
                 IF TriggerFires(config, risk_scores)
                 THEN [fired |-> acc.fired + 1, asl_level |-> config.asl]
                 ELSE acc)

\* _determine_action with the critical-category rule tried before the ASL rule
determine_action_RiskFirst(triggered_risks, max_risk_score, critical_category, asl_triggered, tier) ==
    IF triggered_risks # <<>> /\ critical_category \in {"cbrn", "self_harm"}
                              /\ max_risk_score > 15
    THEN CASE tier = "general"    -> "block"
           [] tier = "enterprise" -> "escalate"
           [] OTHER               -> "redact"
    ELSE IF asl_triggered
    THEN IF tier = "research_sandbox" THEN "allow" ELSE "escalate"
    ELSE IF triggered_risks = <<>> THEN "allow"
    ELSE IF max_risk_score > 50
    THEN IF tier = "research_sandbox" THEN "redact" ELSE "block"
    ELSE IF max_risk_score > 30 THEN "redact"
    ELSE "allow"

\* _determine_action with the high-score rule tried before the
\* critical-category rule
determine_action_HighFirst(triggered_risks, max_risk_score, critical_category, asl_triggered, tier) ==
    IF asl_triggered
    THEN IF tier = "research_sandbox" THEN "allow" ELSE "escalate"
    ELSE IF triggered_risks = <<>> THEN "allow"
    ELSE IF max_risk_score > 50
    THEN IF tier = "research_sandbox" THEN "redact" ELSE "block"
    ELSE IF critical_category \in {"cbrn", "self_harm"} /\ max_risk_score > 15
    THEN CASE tier = "general"    -> "block"
           [] tier = "enterprise" -> "escalate"
           [] OTHER               -> "redact"
    ELSE IF max_risk_score > 30 THEN "redact"
    ELSE "allow"

\* _determine_action without the exception for the research sandbox
determine_action_NoSandbox(triggered_risks, max_risk_score, critical_category, asl_triggered, tier) ==
    IF asl_triggered THEN "escalate"
    ELSE IF triggered_risks = <<>> THEN "allow"
    ELSE IF critical_category \in {"cbrn", "self_harm"} /\ max_risk_score > 15
    THEN CASE tier = "general"    -> "block"
           [] tier = "enterprise" -> "escalate"
           [] OTHER               -> "redact"
    ELSE IF max_risk_score > 50
    THEN IF tier = "research_sandbox" THEN "redact" ELSE "block"
    ELSE IF max_risk_score > 30 THEN "redact"
    ELSE "allow"

\* RulesEngine._determine_action
determine_action(triggered_risks, max_risk_score, critical_category, asl_triggered, tier) ==
    IF asl_triggered
    THEN IF tier = "research_sandbox" THEN "allow" ELSE "escalate"
    ELSE IF triggered_risks = <<>> THEN "allow"
    ELSE IF critical_category \in {"cbrn", "self_harm"} /\ max_risk_score > 15
    THEN CASE tier = "general"    -> "block"
           [] tier = "enterprise" -> "escalate"
           [] OTHER               -> "redact"
    ELSE IF max_risk_score > 50
    THEN IF tier = "research_sandbox" THEN "redact" ELSE "block"
    ELSE IF max_risk_score > 30 THEN "redact"
    ELSE "allow"

\* line 238: triggered_risks[:3], each formatted with the tier
FirstThree(triggered_risks, tier) ==
    [i \in 1..(IF Len(triggered_risks) < 3 THEN Len(triggered_risks) ELSE 3) |->
        [category |-> triggered_risks[i].category, score |-> triggered_risks[i].score,
         tier |-> tier, threshold |-> triggered_risks[i].threshold]]

\* RulesEngine._generate_reason. The string is kept in its parts: the fixed
\* text, the category formatted into it and the formatted risks.
generate_reason(triggered_risks, asl_triggered, critical_category, tier) ==
    IF asl_triggered
    THEN CASE critical_category = "cbrn" ->
                [text |-> "ASL-3 biological/chemical threshold exceeded (>= 0.20)",
                 category |-> critical_category, risks |-> <<>>]
           [] critical_category = "exploitation" ->
                [text |-> "ASL-3 cyber capability threshold exceeded (>= 0.50)",
                 category |-> critical_category, risks |-> <<>>]
           [] critical_category = "jailbreak" ->
                [text |-> "ASL-3 deception capability threshold exceeded (>= 0.50)",
                 category |-> critical_category, risks |-> <<>>]
           [] OTHER ->
                [text |-> "ASL-3 safety threshold triggered for risk",
                 category |-> critical_category, risks |-> <<>>]
    ELSE IF triggered_risks = <<>>
    THEN [text |-> "No policy violations detected", category |-> None, risks |-> <<>>]
    ELSE [text |-> "risk exceeded threshold", category |-> None,
          risks |-> FirstThree(triggered_risks, tier)]

\* line 130: the tag appended when a standard check fires
AslTag(check_category) == [asl |-> 3, category |-> check_category, kind |-> "trigger"]

\* lines 130: event.tags after the call
TagsAfter(ev) ==
    LET first == FirstAslCheck(ev.risk_scores)
    IN  IF first = 0 THEN ev.tags
        ELSE Append(ev.tags, AslTag(asl_checks[first].category))

\* lines 83, 128, 143: enforcement_stats after the call
StatsAfter(ev, stats) ==
    LET first == FirstAslCheck(ev.risk_scores)
        conf  == ConfiguredAsl(DefaultAslTriggers, ev.risk_scores,
                               [fired |-> 0, asl_level |-> NoLevel])
    IN  [total_evaluated |-> stats.total_evaluated + 1,
         asl_triggers |-> stats.asl_triggers + (IF first = 0 THEN 0 ELSE 1) + conf.fired]

\* lines 85-168: the PolicyAction returned for ev under the table thresholds
apply_policies(ev, thresholds) ==
    LET cmp   == CheckThresholds(ev.risk_scores, ev.tier, thresholds, NoRisks)
        first == FirstAslCheck(ev.risk_scores)
        conf  == ConfiguredAsl(DefaultAslTriggers, ev.risk_scores,
                               [fired |-> 0, asl_level |-> NoLevel])
        asl_triggered == first # 0 \/ conf.fired > 0
        asl_level == IF conf.fired > 0 THEN conf.asl_level
                     ELSE IF first # 0 THEN 3 ELSE NoLevel
    IN  [action |-> determine_action(cmp.triggered_risks, cmp.max_risk_score,
                                     cmp.critical_category, asl_triggered, ev.tier),
         asl_level |-> asl_level,
         policy_version |-> "RSP-1.0",
         reason |-> generate_reason(cmp.triggered_risks, asl_triggered,
                                    cmp.critical_category, ev.tier),
         asl_triggered |-> asl_triggered]

----
\* RulesEngine.update_policy

\* rsp_minimums with the floor of cbrn mistyped as 0.01
rsp_minimums_Typo ==
    [c \in Categories |-> IF c = "cbrn" THEN 1 ELSE 20]

\* lines 249-254
rsp_minimums ==
    [c \in Categories |-> IF c = "cbrn" THEN 10 ELSE 20]

\* line 256: the update is refused
BelowMinimum(category, new_threshold) ==
    category \in DOMAIN rsp_minimums /\ FloatLess(new_threshold, rsp_minimums[category])

\* lines 261-262: the table has the cell
HasCell(thresholds, category, tier) ==
    category \in DOMAIN thresholds /\ tier \in DOMAIN thresholds[category]

\* NoFile: the policy file does not exist (a record, to be comparable with a
\* table)
NoFile == [exists |-> FALSE]

\* lines 256-273. write_ok: whether open(policy_file, "w") succeeds (it does not
\* when the directory of the file is missing, which is also when load_policies
\* found no file); when it fails the file is as it was and the exception leaves
\* the method after the table was changed. ret is "True", "False" or "raise".
update_policy(thresholds, file, category, tier, new_threshold, write_ok) ==
    IF BelowMinimum(category, new_threshold)
    THEN [ret |-> "False", thresholds |-> thresholds, file |-> file]
    ELSE IF HasCell(thresholds, category, tier)
    THEN LET updated == [thresholds EXCEPT ![category][tier] = new_threshold]
         IN  IF write_ok
             THEN [ret |-> "True", thresholds |-> updated, file |-> updated]
             ELSE [ret |-> "raise", thresholds |-> updated, file |-> file]
    ELSE [ret |-> "False", thresholds |-> thresholds, file |-> file]

----
\* The engine called directly: one record, evaluated again and again while the
\* table is updated in between.

\* A score a record does not carry
Absent == 0 - 1

CbrnScores == {Absent, 12, 18, 20}
SelfHarmScores == {Absent, 35, 90}
JailbreakScores == {Absent, 35, 50}
ExploitationScores == {Absent, 45, 50}
\* a category without tagger, which the configured ASL triggers name
DeceptionScores == {Absent, 50}

MkScores(c, s, j, e, d) ==
    SelectSeq(<<[category |-> "cbrn", score |-> c],
                [category |-> "self_harm", score |-> s],
                [category |-> "jailbreak", score |-> j],
                [category |-> "exploitation", score |-> e],
                [category |-> "deception", score |-> d]>>,
              LAMBDA item : item.score # Absent)

EngineEvents ==
    {[tier |-> t, risk_scores |-> MkScores(c, s, j, e, d), tags |-> <<>>] :
        t \in TierEnum, c \in CbrnScores, s \in SelfHarmScores,
        j \in JailbreakScores, e \in ExploitationScores, d \in DeceptionScores}

\* The update requests drawn: every category with a floor and one the table
\* does not have; a value below every floor, and the floor of cbrn, which is
\* below the floor of the others
UpdateCategories == Categories \cup {"deception"}
NewThresholds == {5, 10}

\* Calls of apply_policies per record
MaxEvaluated == 2

NoUpdate == [ret |-> "none"]

\* __init__ (lines 25-32) with no policy file: load_policies falls back to
\* _use_default_config
InitRulesEngine ==
    /\ risk_thresholds = DefaultThresholds
    /\ policy_file = NoFile
    /\ enforcement_stats = [total_evaluated |-> 0, asl_triggers |-> 0]

\* The event ids requests name
EventIds == {"e1", "e2"}

\* app.py lines 43-55: empty database, empty queue
InitApp ==
    /\ events = << >>
    /\ review_queue = << >>
    /\ policy_history = << >>
    /\ decided = [id \in EventIds |-> 0]
    /\ review_update = "none"
    /\ response = [op |-> "none"]

\* A confidence or an action not computed yet
NotComputed == 0 - 1
NoAction == "none"

\* No detect() has run
IdleTagger ==
    /\ matches = << >>
    /\ confidence = NotComputed

\* No direct call of _determine_action
IdleAction ==
    /\ action_args = << >>
    /\ action_result = NoAction

\* No update_policy call in flight
IdleSteps ==
    /\ calls = << >>
    /\ loop = None

InitEngine ==
    /\ InitRulesEngine
    /\ InitApp
    /\ IdleTagger /\ IdleAction /\ IdleSteps
    /\ event \in EngineEvents
    /\ returned = << >>
    /\ config_at_call = DefaultThresholds
    /\ update_result = NoUpdate

\* The call consuming the score of the ASL check that fired (a pop instead of
\* a read), beside appending the tag
EventAfter_Pop(ev) ==
    LET first == FirstAslCheck(ev.risk_scores)
    IN  [ev EXCEPT !.tags = TagsAfter(ev),
                   !.risk_scores =
                       IF first = 0 THEN @
                       ELSE SelectSeq(@, LAMBDA item :
                                item.category # asl_checks[first].category)]

\* line 130: the record after a call (its tags grow)
EventAfter(ev) == [ev EXCEPT !.tags = TagsAfter(ev)]

\* apply_policies(event), called by the holder of the record
CallApplyPolicies ==
    /\ enforcement_stats.total_evaluated < MaxEvaluated
    /\ returned' = Append(returned, apply_policies(event, risk_thresholds))
    /\ config_at_call' = risk_thresholds
    /\ event' = EventAfter(event)
    /\ enforcement_stats' = StatsAfter(event, enforcement_stats)
    /\ UNCHANGED <<risk_thresholds, policy_file, update_result>>
    /\ UNCHANGED app_vars
    /\ UNCHANGED unit_vars

\* update_policy(category, event.tier, new_threshold), called directly by the
\* holder of the record for the tier of the record, as review_event calls it
CallUpdatePolicy(category, new_threshold, write_ok) ==
    LET r == update_policy(risk_thresholds, policy_file, category, event.tier,
                           new_threshold, write_ok)
    IN  /\ risk_thresholds' = r.thresholds
        /\ policy_file' = r.file
        /\ update_result' = [ret |-> r.ret, category |-> category,
                             new_threshold |-> new_threshold]
        /\ UNCHANGED <<enforcement_stats, event, returned, config_at_call>>
        /\ UNCHANGED app_vars
        /\ UNCHANGED unit_vars

NextEngine ==
    \/ CallApplyPolicies
    \/ \E category \in UpdateCategories, new_threshold \in NewThresholds,
          write_ok \in BOOLEAN :
            CallUpdatePolicy(category, new_threshold, write_ok)

SpecEngine == InitEngine /\ [][NextEngine]_vars

----
\* Claims about the engine, checked under SpecEngine

Last(seq) == seq[Len(seq)]

CbrnAtLeast(ev, v) ==
    \E i \in 1..Len(ev.risk_scores) :
        ev.risk_scores[i].category = "cbrn" /\ ev.risk_scores[i].score >= v

\* C1: for a record of tier general or enterprise with cbrn score >= 0.20,
\* apply_policies returns action escalate and asl_level 3, whatever the other
\* scores and whatever the threshold table at the call.
C1_CbrnAslEscalates ==
    \A i \in 1..Len(returned) :
        (event.tier \in {"general", "enterprise"} /\ CbrnAtLeast(event, 20))
            => (returned[i].action = "escalate" /\ returned[i].asl_level = 3)

\* C1 witness: such a record, carrying other scores too, was evaluated under
\* an updated table
C1_Witness ==
    /\ Len(returned) >= 1
    /\ event.tier = "general"
    /\ CbrnAtLeast(event, 20)
    /\ Len(event.risk_scores) >= 3
    /\ config_at_call # DefaultThresholds
    /\ Last(returned).action = "escalate"

\* A standard ASL check fires on the record: cbrn >= 0.20, exploitation >= 0.50
\* or jailbreak >= 0.50
AslCeilingMet(ev) ==
    \E i \in 1..Len(ev.risk_scores) :
        \/ ev.risk_scores[i].category = "cbrn" /\ ev.risk_scores[i].score >= 20
        \/ ev.risk_scores[i].category = "exploitation" /\ ev.risk_scores[i].score >= 50
        \/ ev.risk_scores[i].category = "jailbreak" /\ ev.risk_scores[i].score >= 50

\* A score of the record exceeds the threshold of its tier in the table
TierThresholdExceeded(ev, thresholds) ==
    \E i \in 1..Len(ev.risk_scores) :
        /\ ev.risk_scores[i].category \in DOMAIN thresholds
        /\ ev.risk_scores[i].score > thresholds[ev.risk_scores[i].category][ev.tier]

\* C2: for a record of tier research_sandbox on which an ASL trigger fires,
\* apply_policies returns action allow, whether or not a tier threshold is
\* exceeded as well.
C2_SandboxAslAllows ==
    \A i \in 1..Len(returned) :
        (event.tier = "research_sandbox" /\ AslCeilingMet(event))
            => returned[i].action = "allow"

\* C2 witness: a sandbox record with an ASL trigger and a tier threshold exceeded
\* was evaluated and allowed
C2_Witness ==
    /\ Len(returned) >= 1
    /\ event.tier = "research_sandbox"
    /\ AslCeilingMet(event)
    /\ TierThresholdExceeded(event, config_at_call)
    /\ Last(returned).action = "allow"

\* The record carries cbrn 0.18 and every other score is one of a category of
\* the default table, at most the default threshold of the tier and below 0.50
Cbrn18OthersBelow(ev) ==
    \A i \in 1..Len(ev.risk_scores) :
        LET item == ev.risk_scores[i]
        IN  /\ item.category \in Categories
            /\ IF item.category = "cbrn" THEN item.score = 18
               ELSE /\ item.score <= DefaultThresholds[item.category][ev.tier]
                    /\ item.score < 50

\* C3: under the default table a record with cbrn 0.18 and every other score
\* below its thresholds is blocked at tier general, escalated at tier
\* enterprise and allowed or redacted at tier research_sandbox.
C3_TierDifferential ==
    (/\ Len(returned) >= 1
     /\ config_at_call = DefaultThresholds
     /\ CbrnAtLeast(event, 18)
     /\ Cbrn18OthersBelow(event))
        => CASE event.tier = "general"    -> Last(returned).action = "block"
             [] event.tier = "enterprise" -> Last(returned).action = "escalate"
             [] OTHER                     -> Last(returned).action \in {"allow", "redact"}

\* C6: an update_policy call with a value below the floor of its category
\* (cbrn 0.10; self_harm, jailbreak, exploitation 0.20) returns False and
\* leaves the threshold table, every cell of it, as it was.
C6_BelowFloorRejected ==
    [][(/\ update_result'.ret # "none"
        /\ update_result'.category \in Categories
        /\ update_result'.new_threshold <
              (IF update_result'.category = "cbrn" THEN 10 ELSE 20))
          => (/\ update_result'.ret = "False"
              /\ risk_thresholds' = risk_thresholds)]_vars

\* C6 witness: an update of cbrn to 0.05 was refused, after an earlier update
\* had changed the table
C6_Witness ==
    /\ update_result.ret = "False"
    /\ update_result.category = "cbrn"
    /\ update_result.new_threshold = 5
    /\ risk_thresholds # DefaultThresholds

\* C10: a second apply_policies call on the same record, with the table as the
\* first call read it, returns the same action and the same reason.
C10_SameRecordSameAction ==
    [][(/\ Len(returned) >= 1
        /\ Len(returned') = Len(returned) + 1
        /\ config_at_call = risk_thresholds)
          => (/\ Last(returned').action = Last(returned).action
              /\ Last(returned').reason = Last(returned).reason)]_vars

\* C10 witness: a record on which an ASL check fires (the call appends a tag
\* and counts triggers) was evaluated twice with no update of the table at all
C10_Witness ==
    /\ Len(returned) = 2
    /\ update_result = NoUpdate
    /\ Len(event.tags) = 2
    /\ returned[1].asl_triggered
    /\ returned[2].action = "escalate"

----
\* app.ingest_events

\* dict assignment d[category] = score: in place when the key exists, appended
\* when it does not
SetScore(risk_scores, category, score) ==
    IF HasScore(risk_scores, category)
    THEN [i \in 1..Len(risk_scores) |->
            IF risk_scores[i].category = category
            THEN [category |-> category, score |-> score]
            ELSE risk_scores[i]]
    ELSE Append(risk_scores, [category |-> category, score |-> score])

\* app.py lines 47-52: the taggers, in the order of the dict
TaggerOrder == <<"cbrn", "self_harm", "jailbreak", "exploitation">>

\* lines 90-92: every tagger writes its confidence into the record. A text is
\* kept as the confidence each tagger's detect() finds in it.
RECURSIVE RunTaggers(_, _, _)
RunTaggers(risk_scores, text, k) ==
    IF k > Len(TaggerOrder) THEN risk_scores
    ELSE RunTaggers(SetScore(risk_scores, TaggerOrder[k], text[TaggerOrder[k]]),
                    text, k + 1)

\* The look into the table left out
Existing_Never(rows, event_id) == FALSE

\* lines 102-108: the record is already stored
Existing(rows, event_id) == event_id \in DOMAIN rows

\* Queueing on the ASL flag instead of on the action
ShouldQueue_OnAsl(policy_action) == policy_action.asl_triggered

\* line 149: the record goes to the review queue
ShouldQueue(policy_action) == policy_action.action = "escalate"

\* d[key] = value of a dict kept as a function
Put(d, key, value) ==
    [k \in DOMAIN d \cup {key} |-> IF k = key THEN value ELSE d[k]]

\* lines 89-164: the loop body for one record of the batch. st carries the
\* database rows, the queue, the statistics and the two lists of the handler.
IngestOne(st, ev, thresholds) ==
    LET scored == [ev EXCEPT !.risk_scores = RunTaggers(ev.risk_scores, ev.text, 1)]
        policy_action == apply_policies(scored, thresholds)
        stats == StatsAfter(scored, st.stats)
    IN  IF Existing(st.events, ev.event_id)
        THEN [st EXCEPT !.stats = stats]
        ELSE [events |-> Put(st.events, ev.event_id,
                             [tier |-> ev.tier, action |-> policy_action.action,
                              asl_triggered |-> policy_action.asl_triggered]),
              review_queue |->
                  IF ShouldQueue(policy_action)
                  THEN Put(st.review_queue, ev.event_id,
                           [tier |-> ev.tier, action |-> policy_action.action])
                  ELSE st.review_queue,
              stats |-> stats,
              policy_actions |-> Append(st.policy_actions, policy_action)]

\* line 88: the loop over batch.events
RECURSIVE IngestBatch(_, _, _)
IngestBatch(st, batch, thresholds) ==
    IF batch = << >> THEN st
    ELSE IngestBatch(IngestOne(st, Head(batch), thresholds), Tail(batch), thresholds)

\* lines 166-175: the summary returned
IngestResponse(policy_actions) ==
    [op |-> "ingest", status |-> 200,
     processed |-> Len(policy_actions),
     actions |-> [a \in ActionEnum |->
                    Cardinality({i \in 1..Len(policy_actions) :
                                    policy_actions[i].action = a})],
     asl_triggers |-> Cardinality({i \in 1..Len(policy_actions) :
                                    policy_actions[i].asl_triggered})]

\* POST /ingest
ingest_events(batch) ==
    LET st == IngestBatch([events |-> events, review_queue |-> review_queue,
                           stats |-> enforcement_stats, policy_actions |-> << >>],
                          batch, risk_thresholds)
    IN  /\ enforcement_stats.total_evaluated + Len(batch) <= MaxEvaluated
        /\ events' = st.events
        /\ review_queue' = st.review_queue
        /\ enforcement_stats' = st.stats
        /\ response' = IngestResponse(st.policy_actions)
        /\ review_update' = "none"
        /\ UNCHANGED <<risk_thresholds, policy_file, policy_history, decided>>
        /\ UNCHANGED caller_vars
        /\ UNCHANGED unit_vars

----
\* app.review_event

\* review_queue.clear() instead of the del
QueueAfterReview_Clear(queue, event_id) ==
    [k \in {} |-> queue[k]]

\* the del left out
QueueAfterReview_Keep(queue, event_id) == queue

\* line 330: del review_queue[event_id]
QueueAfterReview(queue, event_id) ==
    [k \in DOMAIN queue \ {event_id} |-> queue[k]]

\* lines 299-302: UPDATE events SET action = decision WHERE event_id = ...
EventsAfterReview(rows, event_id, decision) ==
    [k \in DOMAIN rows |->
        IF k = event_id THEN [rows[k] EXCEPT !.action = decision] ELSE rows[k]]

\* line 305: the request asks for a threshold update the handler performs
WantsUpdate(update) == update.update_policy /\ update.has_threshold /\ update.category # None

\* lines 314-327: the row logged after a successful update; old_threshold is
\* read from the table after update_policy returned
HistoryRow(thresholds, category, tier, new_threshold) ==
    [category |-> category, tier |-> tier,
     old_threshold |-> IF HasCell(thresholds, category, tier)
                       THEN thresholds[category][tier] ELSE 0,
     new_threshold |-> new_threshold,
     changed_by |-> "safety_reviewer"]

\* lines 291-292: no entry of the queue for event_id, HTTPException 404
review_not_found(event_id) ==
    /\ response' = [op |-> "review", status |-> 404, event_id |-> event_id]
    /\ review_update' = "none"
    /\ UNCHANGED <<events, review_queue, policy_history, decided>>
    /\ UNCHANGED engine_vars
    /\ UNCHANGED caller_vars
    /\ UNCHANGED unit_vars

\* lines 294-337: the entry is there
review_found(event_id, decision, update, write_ok) ==
    LET tier == review_queue[event_id].tier
        r == IF WantsUpdate(update)
             THEN update_policy(risk_thresholds, policy_file, update.category,
                                tier, update.new_threshold, write_ok)
             ELSE [ret |-> "none", thresholds |-> risk_thresholds,
                   file |-> policy_file]
    IN  /\ events' = EventsAfterReview(events, event_id, decision)
        /\ risk_thresholds' = r.thresholds
        /\ policy_file' = r.file
        /\ review_update' = r.ret
        /\ UNCHANGED enforcement_stats
        /\ UNCHANGED caller_vars
        /\ UNCHANGED unit_vars
        /\ IF r.ret = "raise"
           THEN \* the exception of line 267 ends the handler: 500
                /\ response' = [op |-> "review", status |-> 500,
                                event_id |-> event_id]
                /\ UNCHANGED <<review_queue, policy_history, decided>>
           ELSE /\ policy_history' =
                     IF r.ret = "True"
                     THEN Append(policy_history,
                                 HistoryRow(r.thresholds, update.category, tier,
                                            update.new_threshold))
                     ELSE policy_history
                /\ review_queue' = QueueAfterReview(review_queue, event_id)
                /\ decided' = [decided EXCEPT ![event_id] = @ + 1]
                /\ response' =
                     [op |-> "review", status |-> 200, event_id |-> event_id,
                      decision |-> decision,
                      policy_updated |-> update.update_policy,
                      remaining_in_queue |->
                          Cardinality(DOMAIN QueueAfterReview(review_queue, event_id))]

\* The UPDATE of the stored action run before the look into the queue
review_event_UpdateFirst(event_id, decision, update, write_ok) ==
    IF event_id \notin DOMAIN review_queue
    THEN /\ events' = EventsAfterReview(events, event_id, decision)
         /\ response' = [op |-> "review", status |-> 404, event_id |-> event_id]
         /\ review_update' = "none"
         /\ UNCHANGED <<review_queue, policy_history, decided>>
         /\ UNCHANGED engine_vars
         /\ UNCHANGED caller_vars
         /\ UNCHANGED unit_vars
    ELSE review_found(event_id, decision, update, write_ok)

\* POST /review/{event_id}. update: the query parameters update_policy,
\* new_threshold and category.
review_event(event_id, decision, update, write_ok) ==
    IF event_id \notin DOMAIN review_queue
    THEN review_not_found(event_id)
    ELSE review_found(event_id, decision, update, write_ok)

----
\* The requests drawn

\* Texts, as the confidences the four taggers find: nothing; a cbrn pattern
\* (0.95); a self-harm pattern (0.95); a jailbreak pattern with research
\* context (0.65 - 0.30); cbrn patterns with contexts (0.85 - 0.70)
Texts ==
    {[c \in Categories |-> 0],
     [c \in Categories |-> IF c = "cbrn" THEN 95 ELSE 0],
     [c \in Categories |-> IF c = "self_harm" THEN 95 ELSE 0],
     [c \in Categories |-> IF c = "jailbreak" THEN 35 ELSE 0],
     [c \in Categories |-> IF c = "cbrn" THEN 15 ELSE 0]}

\* risk_scores as the client sends them: none, or one a tagger overwrites
\* beside one of a category without tagger
ClientScores ==
    {<< >>,
     <<[category |-> "cbrn", score |-> 18], [category |-> "deception", score |-> 50]>>}

IngestEvents ==
    {[event_id |-> id, tier |-> t, risk_scores |-> rs, text |-> tx, tags |-> << >>] :
        id \in EventIds, t \in TierEnum, rs \in ClientScores, tx \in Texts}

\* The records batches of two are made of
PairEvents ==
    {ev \in IngestEvents :
        /\ ev.risk_scores = << >>
        /\ ev.tier \in {"general", "research_sandbox"}
        /\ ev.text["cbrn"] = 95}

Batches ==
    {<<ev>> : ev \in IngestEvents} \cup {<<ev, nx>> : ev \in PairEvents, nx \in PairEvents}

\* decision is any string: an action and a word that is no action
Decisions == {"allow", "approve"}

\* a category of the table and one it does not have; a value below the floor
\* of cbrn and one above it
ReviewCategories == {"cbrn", "deception"}
ReviewThresholds == {5, 25}

UpdateRequests ==
    {[update_policy |-> FALSE, has_threshold |-> FALSE, new_threshold |-> 0,
      category |-> None],
     [update_policy |-> TRUE, has_threshold |-> FALSE, new_threshold |-> 0,
      category |-> "cbrn"]}
    \cup {[update_policy |-> TRUE, has_threshold |-> TRUE, new_threshold |-> v,
           category |-> c] : c \in ReviewCategories, v \in ReviewThresholds}

Init ==
    /\ InitRulesEngine
    /\ InitApp
    /\ IdleTagger /\ IdleAction /\ IdleSteps
    /\ event = [tier |-> "general", risk_scores |-> << >>, tags |-> << >>]
    /\ returned = << >>
    /\ config_at_call = DefaultThresholds
    /\ update_result = NoUpdate

Next ==
    \/ \E batch \in Batches : ingest_events(batch)
    \/ \E event_id \in EventIds, decision \in Decisions, update \in UpdateRequests,
          write_ok \in BOOLEAN :
            review_event(event_id, decision, update, write_ok)

Spec == Init /\ [][Next]_vars

----
\* Claims about the queue, checked under Spec

QueueSize(queue) == Cardinality(DOMAIN queue)

\* C4: a review decision for X that succeeds takes X, and X alone, out of the
\* queue (the size goes down by exactly one); from then on X is never in the
\* queue and every later review decision for X is answered not-found.
C4_DecidedOnce ==
    [][\A x \in EventIds :
        /\ decided'[x] > decided[x]
              => /\ x \in DOMAIN review_queue
                 /\ x \notin DOMAIN review_queue'
                 /\ QueueSize(review_queue') = QueueSize(review_queue) - 1
        /\ decided[x] >= 1
              => /\ x \notin DOMAIN review_queue'
                 /\ (response'.op = "review" /\ response'.event_id = x)
                        => response'.status = 404]_vars

\* C4 witness: with two records queued, one was decided, and a later decision
\* for it was answered not-found while the other is still queued
C4_Witness ==
    \E x \in EventIds :
        /\ decided[x] = 1
        /\ response.op = "review" /\ response.event_id = x /\ response.status = 404
        /\ QueueSize(review_queue) = 1

\* C5: of the review submissions for one queued record id, served in whatever
\* order, at most one succeeds, and the queue holds at most one entry per id:
\* the entry of the stored record of that id, not decided yet.
C5_AtMostOneSucceeds ==
    /\ \A x \in EventIds : decided[x] <= 1
    /\ \A x \in DOMAIN review_queue :
          /\ x \in DOMAIN events
          /\ review_queue[x].tier = events[x].tier
          /\ decided[x] = 0

\* C5 witness: two submissions for the same queued id were served one after
\* the other: the first is counted, the second was answered not-found
C5_Witness ==
    \E x \in EventIds :
        /\ decided[x] = 1
        /\ x \in DOMAIN events
        /\ x \notin DOMAIN review_queue
        /\ response.op = "review" /\ response.event_id = x /\ response.status = 404
        /\ enforcement_stats.total_evaluated = 1

\* C7: the answer to a review decision reports policy_updated true only if
\* update_policy succeeded in it.
C7_ReportsUpdateOutcome ==
    (response.op = "review" /\ response.status = 200 /\ response.policy_updated)
        => review_update = "True"

\* C8: a review decision for a queued record removes its queue entry, whatever
\* the threshold update in it did (accepted, refused, failed while persisting).
C8_AlwaysRemoves ==
    [][(response'.op = "review" /\ response'.event_id \in DOMAIN review_queue)
          => response'.event_id \notin DOMAIN review_queue']_vars

----
\* backend/taggers/base_tagger.py: RiskTagger._calculate_confidence
\*
\* A match is <<description, weight>>, weight in hundredths. A decay factor is
\* kept in units of 1/DecayUnit and a confidence in units of 1/One, so that the
\* products weight * decay of the source are exact integers for the lists drawn.

\* line 55: decay = 1.0
DecayUnit == 100000

\* the confidence 1.0
One == 100 * DecayUnit

Max(a, b) == IF a >= b THEN a ELSE b
Min(a, b) == IF a <= b THEN a ELSE b

\* line 46
PositiveMatches(ms) == SelectSeq(ms, LAMBDA m : m[2] > 0)

\* line 47
NegativeMatches(ms) == SelectSeq(ms, LAMBDA m : m[2] < 0)

\* m put behind the matches of sorted that weigh at least as much
InsertByWeight(sorted, m) ==
    LET k == Cardinality({i \in 1..Len(sorted) : sorted[i][2] >= m[2]})
    IN  SubSeq(sorted, 1, k) \o <<m>> \o SubSeq(sorted, k + 1, Len(sorted))

\* The sort left out: the positive matches in the order they matched
SortDescending_None(ms) == ms

\* line 53: sort(key=weight, reverse=True), a stable sort
RECURSIVE SortDescending(_)
SortDescending(ms) ==
    IF ms = << >> THEN << >>
    ELSE InsertByWeight(SortDescending(SubSeq(ms, 1, Len(ms) - 1)), ms[Len(ms)])

\* The decay left out
DecayNext_None(decay) == decay

\* line 58: decay *= 0.8
DecayNext(decay) == (decay * 8) \div 10

\* lines 56-58: the loop over the sorted positive matches
RECURSIVE BaseConfidence(_, _)
BaseConfidence(sorted, decay) ==
    IF sorted = << >> THEN 0
    ELSE Head(sorted)[2] * decay + BaseConfidence(Tail(sorted), DecayNext(decay))

\* lines 61-63: the loop over the negative matches, abs(weight) summed
RECURSIVE NegativeAdjustment(_)
NegativeAdjustment(negative) ==
    IF negative = << >> THEN 0
    ELSE (0 - Head(negative)[2]) * DecayUnit + NegativeAdjustment(Tail(negative))

\* The upper clamp left out
Clamp_Low(final_confidence) == Max(0, final_confidence)

\* line 69: max(0.0, min(final_confidence, 1.0))
Clamp(final_confidence) == Max(0, Min(final_confidence, One))

\* lines 37-69
calculate_confidence(ms) ==
    IF ms = << >> THEN 0
    ELSE LET base_confidence ==
                 BaseConfidence(SortDescending(PositiveMatches(ms)), DecayUnit)
             negative_adjustment == NegativeAdjustment(NegativeMatches(ms))
         IN  Clamp(base_confidence - negative_adjustment)

\* The matches drawn: two patterns and the two context patterns of the CBRN
\* tagger, and two the taggers do not have: a weight above 1 and a weight 0
Patterns ==
    {<<"nerve_agent_synthesis", 95>>, <<"harm_intent", 60>>,
     <<"academic_context", 0 - 30>>, <<"fictional_context", 0 - 20>>,
     <<"oversized", 250>>, <<"weightless", 0>>}

\* Matches in one list
MaxMatches == 4

MatchLists == UNION {[1..n -> Patterns] : n \in 0..MaxMatches}

IdleCaller ==
    /\ event = [tier |-> "general", risk_scores |-> << >>, tags |-> << >>]
    /\ returned = << >>
    /\ config_at_call = DefaultThresholds
    /\ update_result = NoUpdate

InitConfidence ==
    /\ InitRulesEngine
    /\ InitApp
    /\ IdleCaller /\ IdleAction /\ IdleSteps
    /\ matches \in MatchLists
    /\ confidence = NotComputed

\* A tagger's detect() (cbrn_tagger.py line 75) handing the matches it
\* collected to _calculate_confidence
detect ==
    /\ confidence = NotComputed
    /\ confidence' = calculate_confidence(matches)
    /\ UNCHANGED matches
    /\ UNCHANGED action_vars
    /\ UNCHANGED step_vars
    /\ UNCHANGED engine_vars
    /\ UNCHANGED caller_vars
    /\ UNCHANGED app_vars

NextConfidence == detect

SpecConfidence == InitConfidence /\ [][NextConfidence]_vars

----
\* Claims about _calculate_confidence, checked under SpecConfidence

\* C11: whatever list of matches it is given (weights of either sign, 0, or
\* above 1), _calculate_confidence returns a value between 0.0 and 1.0.
C11_ConfidenceInUnitInterval ==
    confidence # NotComputed => (confidence >= 0 /\ confidence <= One)

\* C11 witness: a list with a weight above 1 and a negative weight, whose sum
\* is above 1, gave 1.0
C11_Witness ==
    /\ confidence = One
    /\ \E i, j \in 1..Len(matches) : matches[i][2] > 100 /\ matches[j][2] < 0

\* The reference aggregate of C12, written without a sort: the place of a
\* positive match among the positive ones is the number of them that weigh
\* more (or as much and come earlier), and its factor is 0.8 to that power.
PlaceAmongPositive(ms, i) ==
    Cardinality({j \in 1..Len(ms) :
                    /\ ms[j][2] > 0
                    /\ \/ ms[j][2] > ms[i][2]
                       \/ ms[j][2] = ms[i][2] /\ j < i})

FactorAt(k) == (DecayUnit * 8^k) \div 10^k

RECURSIVE ReferenceSum(_, _)
ReferenceSum(ms, i) ==
    IF i = 0 THEN 0
    ELSE ReferenceSum(ms, i - 1)
         + (IF ms[i][2] > 0 THEN ms[i][2] * FactorAt(PlaceAmongPositive(ms, i))
            ELSE ms[i][2] * DecayUnit)

ReferenceAggregate(ms) ==
    IF \A i \in 1..Len(ms) : ms[i][2] <= 0 THEN 0
    ELSE Max(0, Min(One, ReferenceSum(ms, Len(ms))))

----
\* More claims about the review handler and ingest, checked under Spec

\* C14: a review decision for a record id without an entry in the queue is
\* answered not-found and leaves the queue, the stored records with their
\* actions, the threshold table and the threshold history as they were.
C14_NotFoundChangesNothing ==
    [][\A x \in EventIds :
        (response'.op = "review" /\ response'.event_id = x
            /\ x \notin DOMAIN review_queue)
          => /\ response'.status = 404
             /\ UNCHANGED <<review_queue, events, risk_thresholds, policy_history>>]_vars

\* C14 witness: not-found was answered for a stored record decided before, with
\* another record queued, the table updated and a history row written
C14_Witness ==
    /\ response.op = "review" /\ response.status = 404
    /\ response.event_id \in DOMAIN events
    /\ events[response.event_id].action \in Decisions
    /\ review_queue # << >>
    /\ risk_thresholds # DefaultThresholds
    /\ Len(policy_history) = 1

\* C15: the history row appended by a review decision whose threshold update
\* succeeded holds, as old threshold, the value the cell had before the update
\* and, as new threshold, the value it has after.
C15_HistoryHoldsOldAndNew ==
    [][Len(policy_history') > Len(policy_history)
          => LET h == policy_history'[Len(policy_history')]
             IN  /\ h.old_threshold = risk_thresholds[h.category][h.tier]
                 /\ h.new_threshold = risk_thresholds'[h.category][h.tier]]_vars

\* C17: an ingest leaves every record stored before it as it is: a record of
\* the batch whose id is already stored changes neither the stored record nor
\* its recorded action nor the queue (the entry of that id stays, or stays
\* absent).
C17_DuplicateIngestNoOp ==
    [][response'.op = "ingest"
          => \A x \in DOMAIN events :
                /\ x \in DOMAIN events' /\ events'[x] = events[x]
                /\ x \in DOMAIN review_queue <=> x \in DOMAIN review_queue'
                /\ x \in DOMAIN review_queue => review_queue'[x] = review_queue[x]]_vars

\* C17 witness: the one stored record, escalated at ingest and decided by a
\* review since, was ingested again: nothing was processed, its action is the
\* decision still and it is not back in the queue
C17_Witness ==
    /\ response.op = "ingest" /\ response.processed = 0
    /\ Cardinality(DOMAIN events) = 1
    /\ \E x \in DOMAIN events :
          /\ decided[x] = 1
          /\ events[x].action \in Decisions
          /\ x \notin DOMAIN review_queue
    /\ enforcement_stats.total_evaluated = 2

\* C19: the stored action of a record is changed at most once after ingest
\* recorded it: every change replaces the action recorded at ingest (which the
\* queue entry of the record keeps), never an action a review has already put
\* in its place.
C19_ActionChangedOnce ==
    [][\A x \in DOMAIN events :
        (x \in DOMAIN events' /\ events'[x].action # events[x].action)
            => /\ x \in DOMAIN review_queue
               /\ events[x].action = review_queue[x].action]_vars

\* C25: once a review decision has removed a record id from the queue, the id
\* is never in the queue again, whatever is ingested (the same id too) or
\* reviewed later.
C25_ResolvedIsTerminal ==
    [][\A x \in EventIds :
        (decided[x] >= 1 /\ x \notin DOMAIN review_queue)
            => x \notin DOMAIN review_queue']_vars

\* C25 witness: a record whose ASL check fired was queued, a review removed
\* it, and the same id was then ingested again: it is not queued
C25_Witness ==
    /\ response.op = "ingest" /\ response.status = 200
    /\ response.processed = 0
    /\ DOMAIN events = {"e1"}
    /\ \E x \in DOMAIN events :
          /\ events[x].asl_triggered
          /\ decided[x] = 1
          /\ x \notin DOMAIN review_queue
    /\ review_queue = << >>

\* C26: every record id in the review queue has stored action escalate: a
\* review decision changes the stored action and removes the queue entry
\* together, also when the threshold update in it fails with an error.
C26_QueuedAreEscalated ==
    \A x \in DOMAIN review_queue :
        x \in DOMAIN events /\ events[x].action = "escalate"

\* C27: the stored action of every record is one of allow, block, redact,
\* escalate, whatever review decisions were made.
C27_StoredActionInEnum ==
    \A x \in DOMAIN events : events[x].action \in ActionEnum

----
\* update_policy calls in flight, step by step
\*
\* Each caller is a review request (a coroutine of the one event loop) that has
\* reached its update_policy call, lines 306-310 of app.py. The call is taken
\* in two steps, the table assignment and the write of the file, to see what
\* the event loop lets happen between them.

Callers == {"r1", "r2"}

\* The cell's tier is the tier of the queued record
StepTier == "general"

\* a category of the table and one it does not have; a value below the floor
\* of cbrn, one above it, one above 1, and float('nan')
StepCategories == {"cbrn", "deception"}
StepThresholds == {5, 25, 150, NaN}

StepRequests ==
    {[category |-> c, tier |-> StepTier, new_threshold |-> v, write_ok |-> w,
      pc |-> "pending", ret |-> "none"] :
        c \in StepCategories, v \in StepThresholds, w \in BOOLEAN}

InitUpdates ==
    /\ InitRulesEngine
    /\ InitApp
    /\ IdleCaller /\ IdleTagger /\ IdleAction
    /\ calls \in [Callers -> StepRequests]
    /\ loop = None

\* The handlers run in threads (declared def, not async def): any of them may
\* run between two statements of another
Yields_Threaded(pc) == TRUE

\* app.py lines 280-337: review_event is a coroutine without await, so the
\* event loop gets control back from it only when it ends
Yields(pc) == pc = "done"

\* The event loop lets p take a step: it is idle or running p
CanStep(p) == loop = None \/ loop = p

LoopAfter(p, pc) == IF Yields(pc) THEN None ELSE p

\* rules_engine.py lines 249-264 in caller p: the floor check, the lookup of
\* the cell, the assignment to it
update_policy_set(p) ==
    LET c == calls[p]
        refused == \/ BelowMinimum(c.category, c.new_threshold)
                   \/ ~HasCell(risk_thresholds, c.category, c.tier)
        pc == IF refused THEN "done" ELSE "set"
    IN  /\ CanStep(p)
        /\ c.pc = "pending"
        /\ risk_thresholds' =
              IF refused THEN risk_thresholds
              ELSE [risk_thresholds EXCEPT ![c.category][c.tier] = c.new_threshold]
        /\ calls' = [calls EXCEPT ![p].pc = pc,
                                  ![p].ret = IF refused THEN "False" ELSE "none"]
        /\ loop' = LoopAfter(p, pc)
        /\ UNCHANGED <<policy_file, enforcement_stats>>
        /\ UNCHANGED caller_vars
        /\ UNCHANGED app_vars
        /\ UNCHANGED tagger_vars
        /\ UNCHANGED action_vars

\* lines 267-271 in caller p: open(policy_file, "w") and yaml.dump of the
\* whole policy_config as it is now, or the exception of open
update_policy_write(p) ==
    LET c == calls[p]
    IN  /\ CanStep(p)
        /\ c.pc = "set"
        /\ policy_file' = IF c.write_ok THEN risk_thresholds ELSE policy_file
        /\ calls' = [calls EXCEPT ![p].pc = "done",
                                  ![p].ret = IF c.write_ok THEN "True" ELSE "raise"]
        /\ loop' = LoopAfter(p, "done")
        /\ UNCHANGED <<risk_thresholds, enforcement_stats>>
        /\ UNCHANGED caller_vars
        /\ UNCHANGED app_vars
        /\ UNCHANGED tagger_vars
        /\ UNCHANGED action_vars

NextUpdates ==
    \/ \E p \in Callers : update_policy_set(p)
    \/ \E p \in Callers : update_policy_write(p)

SpecUpdates == InitUpdates /\ [][NextUpdates]_vars

----
\* Claims about concurrent updates, checked under SpecUpdates

\* The calls of order run one after the other, each as a whole
RECURSIVE SerialRun(_, _)
SerialRun(order, st) ==
    IF order = << >> THEN st
    ELSE LET c == calls[Head(order)]
             r == update_policy(st.thresholds, st.file, c.category, c.tier,
                                c.new_threshold, c.write_ok)
         IN  SerialRun(Tail(order),
                       [thresholds |-> r.thresholds, file |-> r.file,
                        rets |-> Put(st.rets, Head(order), r.ret)])

SerialOrders == {<<"r1", "r2">>, <<"r2", "r1">>}

AllDone == calls # << >> /\ \A p \in Callers : calls[p].pc = "done"

\* C16: concurrent update_policy calls do not interleave: never are two of
\* them between the table assignment and the write, and once all have ended
\* the table, the file and what each call returned are those of the calls run
\* one after the other in some order (no update lost, no write mixed).
C16_UpdatesSerialized ==
    /\ calls # << >> => Cardinality({p \in Callers : calls[p].pc = "set"}) <= 1
    /\ AllDone =>
          \E order \in SerialOrders :
              LET s == SerialRun(order, [thresholds |-> DefaultThresholds,
                                         file |-> NoFile, rets |-> << >>])
              IN  /\ risk_thresholds = s.thresholds
                  /\ policy_file = s.file
                  /\ \A p \in Callers : calls[p].ret = s.rets[p]

\* C16 witness: two calls for the same cell with different values, one whose
\* write succeeded and one whose write failed, have both ended
C16_Witness ==
    /\ AllDone
    /\ calls["r1"].category = "cbrn" /\ calls["r2"].category = "cbrn"
    /\ calls["r1"].new_threshold # calls["r2"].new_threshold
    /\ calls["r1"].ret = "True" /\ calls["r2"].ret = "raise"
    /\ policy_file # NoFile
    /\ policy_file # risk_thresholds

\* C18: after any sequence of threshold updates every threshold of the table
\* is a number in [0, 1].
C18_ThresholdsInUnitInterval ==
    \A c \in DOMAIN risk_thresholds : \A t \in DOMAIN risk_thresholds[c] :
        risk_thresholds[c][t] >= 0 /\ risk_thresholds[c][t] <= 100

\* C24: from the default table, after any sequence of update_policy calls,
\* every cbrn threshold is >= 0.10 and every self_harm, jailbreak and
\* exploitation threshold is >= 0.20.
C24_FloorsKept ==
    \A c \in DOMAIN risk_thresholds : \A t \in DOMAIN risk_thresholds[c] :
        /\ risk_thresholds[c][t] # NaN
        /\ c = "cbrn" => risk_thresholds[c][t] >= 10
        /\ c \in {"self_harm", "jailbreak", "exploitation"} => risk_thresholds[c][t] >= 20

----
\* _determine_action called on its own

\* The arguments drawn: every combination of the flag, a list of triggered
\* risks (empty or not), a critical category (None among them), a score at and
\* beside each constant of the rules, and a tier
ActionScores == {0, 15, 16, 30, 31, 50, 51, 100}

ActionArgs ==
    {[asl_triggered |-> a, triggered_risks |-> r, critical_category |-> c,
      max_risk_score |-> m, tier |-> t] :
        a \in BOOLEAN,
        r \in {<< >>, <<[category |-> "jailbreak", score |-> 35, threshold |-> 30]>>},
        c \in Categories \cup {None},
        m \in ActionScores,
        t \in TierEnum}

InitAction ==
    /\ InitRulesEngine
    /\ InitApp
    /\ IdleCaller /\ IdleTagger /\ IdleSteps
    /\ action_args \in ActionArgs
    /\ action_result = NoAction

\* rules_engine.py lines 147-153: the call of _determine_action
CallDetermineAction ==
    /\ action_result = NoAction
    /\ action_result' =
          determine_action(action_args.triggered_risks, action_args.max_risk_score,
                           action_args.critical_category, action_args.asl_triggered,
                           action_args.tier)
    /\ UNCHANGED action_args
    /\ UNCHANGED tagger_vars
    /\ UNCHANGED step_vars
    /\ UNCHANGED engine_vars
    /\ UNCHANGED caller_vars
    /\ UNCHANGED app_vars

NextAction == CallDetermineAction

SpecAction == InitAction /\ [][NextAction]_vars

----
\* Claims about _determine_action, checked under SpecAction

\* The ordered list of rules of C20, each with whether it matches the arguments
RuleList(a) ==
    LET critical == a.critical_category \in {"cbrn", "self_harm"}
                        /\ a.max_risk_score > 15
    IN  <<[when |-> a.asl_triggered /\ a.tier = "research_sandbox", then |-> "allow"],
          [when |-> a.asl_triggered, then |-> "escalate"],
          [when |-> a.triggered_risks = << >>, then |-> "allow"],
          [when |-> critical /\ a.tier = "general", then |-> "block"],
          [when |-> critical /\ a.tier = "enterprise", then |-> "escalate"],
          [when |-> critical /\ a.tier = "research_sandbox", then |-> "redact"],
          [when |-> a.max_risk_score > 50 /\ a.tier = "research_sandbox",
           then |-> "redact"],
          [when |-> a.max_risk_score > 50, then |-> "block"],
          [when |-> a.max_risk_score > 30, then |-> "redact"],
          [when |-> TRUE, then |-> "allow"]>>

FirstMatch(rules) ==
    CHOOSE i \in 1..Len(rules) : rules[i].when /\ \A j \in 1..(i - 1) : ~rules[j].when

----
\* More claims about the engine, checked under SpecEngine

\* The text that names the capability ceiling of a category and its threshold
CeilingText(category) ==
    CASE category = "cbrn" -> "ASL-3 biological/chemical threshold exceeded (>= 0.20)"
      [] category = "exploitation" -> "ASL-3 cyber capability threshold exceeded (>= 0.50)"
      [] category = "jailbreak" -> "ASL-3 deception capability threshold exceeded (>= 0.50)"

\* C21: when the ASL check of category C fires (cbrn at 0.20, exploitation at
\* 0.50, jailbreak at 0.50, the first of them in that order), the reason of
\* the PolicyAction returned names the ceiling of C with its threshold and
\* has C formatted into it, not another category and not None.
C21_ReasonNamesAslCategory ==
    \A i \in 1..Len(returned) :
        LET first == FirstAslCheck(event.risk_scores)
        IN  first # 0 =>
                /\ returned[i].reason.category = asl_checks[first].category
                /\ returned[i].reason.text = CeilingText(asl_checks[first].category)

\* The items of a record's scores that exceed their threshold for its tier
TriggeredItems(ev, thresholds) ==
    {i \in 1..Len(ev.risk_scores) :
        /\ ev.risk_scores[i].category \in DOMAIN thresholds
        /\ ev.risk_scores[i].score > thresholds[ev.risk_scores[i].category][ev.tier]}

\* C22: when no ASL trigger fires and more than three categories exceed their
\* tier thresholds, the reason lists three entries and no entry left out has a
\* higher score than one listed (so the highest one is always listed).
C22_ReasonListsTopThree ==
    LET triggered == TriggeredItems(event, config_at_call)
        risks == Last(returned).reason.risks
        listed == {risks[k].category : k \in 1..Len(risks)}
    IN  (Len(returned) >= 1 /\ ~Last(returned).asl_triggered
            /\ Cardinality(triggered) > 3)
          => /\ Len(risks) = 3
             /\ \A i \in triggered :
                   event.risk_scores[i].category \notin listed
                      => \A k \in 1..Len(risks) :
                            risks[k].score >= event.risk_scores[i].score

\* C23: the ASL evaluation does not depend on the tier or on the threshold
\* table: what every earlier call returned as asl_triggered and asl_level for
\* the record is what a record with the same scores and any tier gets under
\* the table as it is now, after the updates made since.
C23_AslIndependentOfTier ==
    \A i \in 1..Len(returned) : \A t \in TierEnum :
        LET other == apply_policies([event EXCEPT !.tier = t], risk_thresholds)
        IN  /\ returned[i].asl_triggered = other.asl_triggered
            /\ returned[i].asl_level = other.asl_level

\* C23 witness: a record at research_sandbox whose jailbreak check fired was
\* evaluated under the default table, the table was updated, and at general
\* the same scores exceed a tier threshold they do not exceed at its own tier
C23_Witness ==
    /\ Len(returned) >= 1
    /\ event.tier = "research_sandbox"
    /\ returned[1].asl_triggered /\ returned[1].asl_level = 3
    /\ ~CbrnAtLeast(event, 20)
    /\ risk_thresholds # DefaultThresholds
    /\ Cardinality(TriggeredItems([event EXCEPT !.tier = "general"], risk_thresholds))
          > Cardinality(TriggeredItems(event, risk_thresholds))

\* C28: each apply_policies call adds at most one to asl_triggers and exactly
\* one to total_evaluated, so asl_triggers <= total_evaluated in every state.
C28_TriggersAtMostEvaluated ==
    enforcement_stats.asl_triggers <= enforcement_stats.total_evaluated

\* The triggered items of the record other than cbrn score no higher than cbrn
\* does, and cbrn exceeds its threshold
CbrnIsHighestTriggered(ev, thresholds) ==
    \E i \in TriggeredItems(ev, thresholds) :
        /\ ev.risk_scores[i].category = "cbrn"
        /\ \A j \in TriggeredItems(ev, thresholds) :
              ev.risk_scores[j].score <= ev.risk_scores[i].score

\* C29: at tier general, under every table reached by updates, a record
\* without ASL trigger whose cbrn score exceeds the general cbrn threshold and
\* is its highest triggered score is not given action allow.
C29_TriggeredCbrnNotAllowed ==
    (/\ Len(returned) >= 1
     /\ event.tier = "general"
     /\ ~Last(returned).asl_triggered
     /\ CbrnIsHighestTriggered(event, config_at_call))
        => Last(returned).action # "allow"

\* C30: an update_policy call that returns False or fails while writing the
\* file leaves the in-memory table as it was.
C30_FailedUpdateKeepsTable ==
    [][(update_result' # update_result /\ update_result'.ret \in {"False", "raise"})
          => risk_thresholds' = risk_thresholds]_vars

====
